---- MODULE Spec2Model ----
(***************************************************************************)
(* Model of the YouTube comment-corpus scripts:                            *)
(*   youtube_scraper.py  Channel Selector (pick_5_channels_5_videos, main) *)
(*                       and Comment Collector (fetch_comments_for_video)  *)
(*   yt_topup.py         Corpus Merger (main) and its copy of the          *)
(*                       collector (fetch_comments)                        *)
(* Three specifications share the module: SpecCol (one run of the          *)
(* collector), Spec (one run of the selector up to the plan handed to      *)
(* collection) and SpecTop (two successive top-up runs on one corpus).     *)
(***************************************************************************)
EXTENDS Integers, Sequences, FiniteSets, TLC

VARIABLES
    \* ---- Comment Collector (fetch_comments_for_video / fetch_comments)
    c_pc,        \* "idle" | "loop" | "done"
    c_target,    \* the target argument
    c_pages,     \* the source: the pages the comment-thread API serves
    c_rows,      \* rows
    c_fetched,   \* fetched / got
    c_next,      \* next_page / nextp (NoneId when None)
    c_log,       \* history: one entry per page request issued
    \* ---- Channel Selector (pick_5_channels_5_videos, then main 198-208)
    s_pc,        \* "primary" | "escalate" | "picked" | "plan" | "exit2" | "error"
    s_N,         \* args.channels (0 until main reads it)
    s_M,         \* args.videos_per_channel (0 until main reads it)
    s_minC,      \* args.min_comments (0 until the call of line 199)
    s_stats,     \* stats: the primary probe's video ids, in dict order
    s_by,        \* by_channel: [order: keys in insertion order, vids: lists]
    s_tier,      \* escalation tiers run so far (0..3)
    s_plan,      \* selected: sequence of [ch, vids]
    s_how,       \* history: which return produced s_plan
    s_sizes,     \* history: the lists' lengths after each tier run
    s_seen,      \* history: the qualifying videos in first-encounter order
    s_trail,     \* history: the lists the last tier run assigned, one by one
    \* ---- Corpus Merger (yt_topup.py main)
    t_pc,            \* "start" | "names" | "write" | "written" | "idle"
    t_run,           \* top-up runs started so far
    t_file,          \* OUT: [exists, extras (has the uploader columns), rows]
    t_resolve,       \* the source: find_channel_id's answer for each name
    t_search,        \* the source: search_channel_videos' answer per channel
    t_existing,      \* existing
    t_existing_vids, \* existing_vids
    t_per_ch,        \* per_ch
    t_added,         \* added
    t_i,             \* position in TARGET_CHANNEL_NAMES
    t_iters,         \* history: one entry per name handled in this run
    t_passes         \* history: one entry per video collected in this run

topVars == <<t_pc, t_run, t_file, t_resolve, t_search, t_existing, t_existing_vids,
             t_per_ch, t_added, t_i, t_iters, t_passes>>

selVars == <<s_pc, s_N, s_M, s_minC, s_stats, s_by, s_tier, s_plan, s_how, s_sizes,
             s_seen, s_trail>>

colVars == <<c_pc, c_target, c_pages, c_rows, c_fetched, c_next, c_log>>

\* Python's None (and an absent nextPageToken); every real id is >= 1.
NoneId == 0

(***************************************************************************)
(* Bounds of the collector's inputs.                                       *)
(***************************************************************************)
MaxPages == 2      \* pages a video's comment source holds (at least 1)
MaxThreads == 2    \* threads on one page
MaxReplies == 1    \* replies nested in one thread that has replies
MaxTarget == 4     \* targets range over 0..MaxTarget

\* The video the collector spec collects, and the author of its comments.
ColVideo == <<1, 1>>
ColAuthor == "viewer"

(***************************************************************************)
(* The source.  A thread is [id, author, replies]; a reply is [id, author];*)
(* a page is a sequence of threads.  Page p of a source of n pages carries *)
(* nextPageToken p+1 when p < n and none when p = n.  Comment ids are      *)
(* fixed by position so that every comment of a source has its own id.     *)
(***************************************************************************)
TopId(p, i) == 100 * p + 10 * i
ReplyId(p, i, k) == 100 * p + 10 * i + k

MkThread(p, i, nrep, author) ==
    [id |-> TopId(p, i), author |-> author,
     replies |-> [k \in 1..nrep |-> [id |-> ReplyId(p, i, k), author |-> author]]]

\* All pages with position p: 0..MaxThreads threads, each with no reply or
\* with MaxReplies replies.
PagesAt(p) ==
    UNION {{[i \in 1..n |-> MkThread(p, i, shape[i], ColAuthor)] :
              shape \in [1..n -> {0, MaxReplies}]} : n \in 0..MaxThreads}

RECURSIVE SourcesOfLen(_)
SourcesOfLen(n) ==
    IF n = 0 THEN {<<>>}
    ELSE {Append(src, page) : src \in SourcesOfLen(n - 1), page \in PagesAt(n)}

\* The API always answers the first request, so a source has at least a page.
Sources == UNION {SourcesOfLen(n) : n \in 1..MaxPages}

RECURSIVE SumSeq(_)
SumSeq(s) == IF s = <<>> THEN 0 ELSE Head(s) + SumSeq(Tail(s))

\* Items (top-level comments plus replies) a page / a source holds.
PageTotal(page) == SumSeq([i \in 1..Len(page) |-> 1 + Len(page[i].replies)])
SourceTotal(src) == SumSeq([p \in 1..Len(src) |-> PageTotal(src[p])])

\* resp.get('nextPageToken') of the response for page p.
NextPageTokenBroken(src, p) == NoneId
NextPageToken(src, p) == IF p < Len(src) THEN p + 1 ELSE NoneId

(***************************************************************************)
(* Rows.  Only the fields the merger and the claims read are kept:         *)
(* video_id, comment_id, reply_parent_id, is_reply, channel_id (the        *)
(* comment AUTHOR's channel id, scraper line 123 / 142).                   *)
(***************************************************************************)
TopRow(vid, item) ==
    [video_id |-> vid, comment_id |-> item.id, reply_parent_id |-> NoneId,
     is_reply |-> FALSE, channel_id |-> item.author]

ReplyRowSelfParent(vid, item, reply) ==
    [video_id |-> vid, comment_id |-> reply.id, reply_parent_id |-> reply.id,
     is_reply |-> TRUE, channel_id |-> reply.author]
ReplyRow(vid, item, reply) ==
    [video_id |-> vid, comment_id |-> reply.id, reply_parent_id |-> item.id,
     is_reply |-> TRUE, channel_id |-> reply.author]

ReplyRows(vid, item) ==
    [k \in 1..Len(item.replies) |-> ReplyRow(vid, item, item.replies[k])]

(***************************************************************************)
(* The for-loop over one response's items (scraper 112-153, topup 60-94):  *)
(* a top-level row, then the thread's reply rows, fetched counted per row, *)
(* and a break after the thread at which fetched >= target.  `seen` is     *)
(* history: the value of fetched when each thread was taken up.            *)
(***************************************************************************)
RECURSIVE ProcessItems(_, _, _, _, _, _)
ProcessItems(items, vid, rows, fetched, target, seen) ==
    IF items = <<>>
    THEN [rows |-> rows, fetched |-> fetched, seen |-> seen]
    ELSE LET item == Head(items)
             rows2 == Append(rows, TopRow(vid, item)) \o ReplyRows(vid, item)
             fetched2 == fetched + 1 + Len(item.replies)
             seen2 == Append(seen, fetched)
         IN  IF fetched2 >= target
             THEN [rows |-> rows2, fetched |-> fetched2, seen |-> seen2]
             ELSE ProcessItems(Tail(items), vid, rows2, fetched2, target, seen2)

\* The page a request asks for: the first one unless a pageToken is passed.
RequestedPage(next) == IF next = NoneId THEN 1 ELSE next

ColInit ==
    /\ c_pc = "loop"
    /\ c_target \in 0..MaxTarget
    /\ c_pages \in Sources
    /\ c_rows = <<>>
    /\ c_fetched = 0
    /\ c_next = NoneId
    /\ c_log = <<>>

\* One iteration of `while True` (scraper 106-161, topup 56-98): one request.
ColFetchPage ==
    /\ c_pc = "loop"
    /\ LET p == RequestedPage(c_next)
           res == ProcessItems(c_pages[p], ColVideo, c_rows, c_fetched, c_target, <<>>)
           tok == NextPageToken(c_pages, p)
       IN  /\ c_rows' = res.rows
           /\ c_fetched' = res.fetched
           /\ c_log' = Append(c_log, [page |-> p, fetched |-> c_fetched,
                                      cursor |-> c_next, seen |-> res.seen])
           /\ IF res.fetched >= c_target
              THEN c_next' = c_next /\ c_pc' = "done"
              ELSE c_next' = tok /\ c_pc' = IF tok = NoneId THEN "done" ELSE "loop"
    /\ UNCHANGED <<c_target, c_pages>>
    /\ UNCHANGED <<selVars, topVars>>

\* The collector when another component is the one under study.
ColIdle ==
    /\ c_pc = "idle"
    /\ c_target = 0
    /\ c_pages = <<>>
    /\ c_rows = <<>>
    /\ c_fetched = 0
    /\ c_next = NoneId
    /\ c_log = <<>>


(***************************************************************************)
(*                          CHANNEL SELECTOR                               *)
(***************************************************************************)

\* Numbers written into pick_5_channels_5_videos.
BucketCap == 5        \* vids[:5] / [:5] after every sort
FullBucket == 5       \* len(vids) == 5
ChannelsWanted == 5   \* len(selected) >= 5 and selected[:5]
FallbackCap == 5      \* sorted(...)[:5] of the fallback
NumVariants == 3      \* ('viewCount', 'date', 'rating')

(***************************************************************************)
(* The pool the searches draw from: NumSelChannels channels with the same *)
(* number of videos each; a video's commentCount does not change during a  *)
(* run.  A search response is a window of a catalogue of all the videos.   *)
(***************************************************************************)
NumSelChannels == 6
SelChannels == 1..NumSelChannels

\* A video is <<channel, j>>; the j-th video of every channel has
\* commentCount CountPattern[j].
CountPattern == <<2, 3, 1, 2, 3, 2>>
ChannelOf(v) == v[1]
CountOf(v) == CountPattern[v[2]]

\* The catalogue: one chunk per channel, except that each of the last two
\* channels comes in two chunks (its first and its second half).
SplitChannels == {c \in SelChannels : c > NumSelChannels - 2}
HalfLen == Len(CountPattern) \div 2
WholeChunks == [c \in 1..(NumSelChannels - Cardinality(SplitChannels)) |->
                  [j \in 1..Len(CountPattern) |-> <<c, j>>]]
HalfChunk(c, h) ==
    IF h = 1 THEN [j \in 1..HalfLen |-> <<c, j>>]
    ELSE [j \in 1..(Len(CountPattern) - HalfLen) |-> <<c, HalfLen + j>>]
Catalogue ==
    WholeChunks \o
    [k \in 1..(2 * Cardinality(SplitChannels)) |->
        HalfChunk(Len(WholeChunks) + (k + 1) \div 2, 2 - (k % 2))]
NumChunks == Len(Catalogue)

RECURSIVE Window(_, _)
Window(lo, hi) == IF lo > hi THEN <<>> ELSE Catalogue[lo] \o Window(lo + 1, hi)

\* What search_videos + video_stats can answer (the stats dict's keys in
\* order): nothing, a prefix of the catalogue, or one chunk of it.
Responses ==
    {<<>>} \cup {Window(1, hi) : hi \in 1..NumChunks}
           \cup {Window(k, k) : k \in 1..NumChunks}

\* The argument values tried.
ChannelArgs == {2, 5, 6}
VideoArgs == {3, 5}
MinCommentArgs == {1, 2}

SeqToSet(s) == {s[i] : i \in 1..Len(s)}
Min(a, b) == IF a <= b THEN a ELSE b
Take(s, n) == SubSeq(s, 1, Min(n, Len(s)))

\* meta['commentCount'] >= min_comments (lines 62 and 83).
QualifiesAlways(v, minC) == TRUE
Qualifies(v, minC) == CountOf(v) >= minC

(***************************************************************************)
(* list.sort(key=..., reverse=True) and sorted(..., reverse=True): stable, *)
(* descending by key; elements of equal key keep their order.              *)
(***************************************************************************)
RECURSIVE CountGE(_, _)
CountGE(s, k) ==
    IF s = <<>> THEN 0
    ELSE (IF Head(s).key >= k THEN 1 ELSE 0) + CountGE(Tail(s), k)

InsertDesc(sorted, x) ==
    LET n == CountGE(sorted, x.key)
    IN  SubSeq(sorted, 1, n) \o <<x>> \o SubSeq(sorted, n + 1, Len(sorted))

\* Sorts a sequence of [key, val] pairs.
RECURSIVE SortDescPairs(_)
SortDescPairs(s) ==
    IF s = <<>> THEN <<>>
    ELSE InsertDesc(SortDescPairs(SubSeq(s, 1, Len(s) - 1)), s[Len(s)])

Vals(pairs) == [i \in 1..Len(pairs) |-> pairs[i].val]

\* key=lambda v: ...['commentCount'], reverse=True (lines 68 and 88-89).
SortByCount(lst) ==
    Vals(SortDescPairs([i \in 1..Len(lst) |-> [key |-> CountOf(lst[i]), val |-> lst[i]]]))

\* key=lambda kv: len(kv[1]), reverse=True (line 95).
SortByLen(items) ==
    Vals(SortDescPairs([i \in 1..Len(items) |-> [key |-> Len(items[i].vids), val |-> items[i]]]))

(***************************************************************************)
(* by_channel, a dict: `order` is its keys in insertion order, `vids` maps *)
(* every channel to its list (<<>> for a channel that is no key).          *)
(***************************************************************************)
EmptyBy == [order |-> <<>>, vids |-> [c \in SelChannels |-> <<>>]]

\* by_channel.setdefault(ch, [])
SetDefault(by, ch) ==
    IF ch \in SeqToSet(by.order) THEN by ELSE [by EXCEPT !.order = Append(@, ch)]

\* Lines 61-64: group the qualifying videos of stats by channel.
GroupItem(by, v, minC) ==
    IF Qualifies(v, minC)
    THEN [SetDefault(by, ChannelOf(v)) EXCEPT !.vids[ChannelOf(v)] = Append(@, v)]
    ELSE by

\* The loop over stats.items(), split in halves to keep the evaluation
\* shallow; the items are still taken one by one, left to right.  The test
\* on by.order never holds: it only has `by` evaluated before the descent.
RECURSIVE GroupByChannel(_, _, _)
GroupByChannel(items, minC, by) ==
    IF Len(by.order) < 0 \/ Len(items) = 0 THEN by
    ELSE IF Len(items) = 1 THEN GroupItem(by, items[1], minC)
    ELSE LET h == Len(items) \div 2
         IN  GroupByChannel(SubSeq(items, h + 1, Len(items)), minC,
                            GroupByChannel(SubSeq(items, 1, h), minC, by))

\* Lines 67-69: sort every bucket by commentCount descending, keep the top 5.
SortAndCap(by) ==
    [by EXCEPT !.vids = [c \in SelChannels |-> Take(SortByCount(by.vids[c]), BucketCap)]]

\* Lines 82-89 for one (vid, meta) of stats2.  The sort key is
\* stats.get(v, stats2.get(v))['commentCount']: it raises TypeError for a
\* list member that is a key of neither stats nor this tier's stats2.
\* acc.trail records every list assigned by lines 88-89.
MergeItemResetting(acc, v, statsKeys, stats2Keys, minC) ==
    IF acc.err \/ ~Qualifies(v, minC) THEN acc
    ELSE LET ch == ChannelOf(v)
             by1 == SetDefault(acc.by, ch)
             lst == <<v>>
         IN  IF v \in SeqToSet(by1.vids[ch]) THEN [acc EXCEPT !.by = by1]
             ELSE [err |-> FALSE,
                   by |-> [by1 EXCEPT !.vids[ch] = lst],
                   trail |-> Append(acc.trail, [ch |-> ch, vids |-> lst])]
MergeItem(acc, v, statsKeys, stats2Keys, minC) ==
    IF acc.err \/ ~Qualifies(v, minC) THEN acc
    ELSE LET ch == ChannelOf(v)
             by1 == SetDefault(acc.by, ch)
             lst == Append(by1.vids[ch], v)
         IN  IF v \in SeqToSet(by1.vids[ch]) THEN [acc EXCEPT !.by = by1]
             ELSE IF \E x \in SeqToSet(lst) : x \notin statsKeys \cup stats2Keys
             THEN [err |-> TRUE, by |-> [by1 EXCEPT !.vids[ch] = lst], trail |-> acc.trail]
             ELSE [err |-> FALSE,
                   by |-> [by1 EXCEPT !.vids[ch] = Take(SortByCount(lst), BucketCap)],
                   trail |-> Append(acc.trail,
                               [ch |-> ch, vids |-> Take(SortByCount(lst), BucketCap)])]

\* The loop over stats2.items(), split in halves to keep the evaluation
\* shallow; the items are taken one by one, left to right, and nothing more
\* is done once the sort has raised.
RECURSIVE MergeTier(_, _, _, _, _)
MergeTier(acc, items, statsKeys, stats2Keys, minC) ==
    IF acc.err \/ Len(items) = 0 THEN acc
    ELSE IF Len(items) = 1 THEN MergeItem(acc, items[1], statsKeys, stats2Keys, minC)
    ELSE LET h == Len(items) \div 2
         IN  MergeTier(MergeTier(acc, SubSeq(items, 1, h), statsKeys, stats2Keys, minC),
                       SubSeq(items, h + 1, Len(items)), statsKeys, stats2Keys, minC)

\* by_channel.items() as a sequence of [ch, vids].
Items(by) == [i \in 1..Len(by.order) |-> [ch |-> by.order[i], vids |-> by.vids[by.order[i]]]]

\* Lines 72 and 90: the channels whose list has exactly 5 videos.
IsFull(e) == Len(e.vids) = FullBucket
Selected(by) == SelectSeq(Items(by), IsFull)

\* Line 95: the 5 channels with the longest lists (stable).
Fallback(by) == Take(SortByLen(Items(by)), FallbackCap)

\* main 205-208: selected[:args.channels], every list cut to videos_per_channel.
LimitPlan(selected, n, m) ==
    LET cut == Take(selected, n)
    IN  [i \in 1..Len(cut) |-> [ch |-> cut[i].ch, vids |-> Take(cut[i].vids, m)]]

\* History: the qualifying videos met so far (lines 61-62 and 82-83), each
\* once, in the order of their first encounter.
FirstSeen(seen, items, minC) ==
    seen \o SelectSeq(items, LAMBDA v : Qualifies(v, minC) /\ v \notin SeqToSet(seen))

\* History for C1: the lists' lengths after a tier, in discovery order.
Sizes(by) == [i \in 1..Len(by.order) |-> [ch |-> by.order[i], n |-> Len(by.vids[by.order[i]])]]

SelInit ==
    /\ s_pc = "primary"
    /\ s_N = 0
    /\ s_M = 0
    /\ s_minC = 0
    /\ s_stats = <<>>
    /\ s_by = EmptyBy
    /\ s_tier = 0
    /\ s_plan = <<>>
    /\ s_how = "none"
    /\ s_sizes = <<>>
    /\ s_seen = <<>>
    /\ s_trail = <<>>

\* Lines 55-74, called with args.min_comments (line 199): the relevance
\* search, its probe, grouping, and the first return.
SelPrimary ==
    /\ s_pc = "primary"
    /\ \E minC \in MinCommentArgs, resp \in Responses :
         \E by \in {SortAndCap(GroupByChannel(resp, minC, EmptyBy))} :
         LET selected == Selected(by)
         IN  /\ s_minC' = minC
             /\ s_stats' = resp
             /\ s_by' = by
             /\ s_sizes' = <<Sizes(by)>>
             /\ s_seen' = FirstSeen(<<>>, resp, minC)
             /\ s_trail' = Items(by)
             /\ IF Len(selected) >= ChannelsWanted
                THEN /\ s_plan' = Take(selected, ChannelsWanted)
                     /\ s_how' = "primary"
                     /\ s_pc' = "picked"
                ELSE /\ s_plan' = s_plan
                     /\ s_how' = s_how
                     /\ s_pc' = "escalate"
    /\ UNCHANGED <<s_N, s_M, s_tier>>
    /\ UNCHANGED <<colVars, topVars>>

\* Lines 78-96: one pass of `for ordv in variants`, with the fallback return
\* when the last variant leaves fewer than 5 full channels.
SelEscalate ==
    /\ s_pc = "escalate"
    /\ \E resp \in Responses :
         \E res \in {MergeTier([err |-> FALSE, by |-> s_by, trail |-> <<>>], resp,
                              SeqToSet(s_stats), SeqToSet(resp), s_minC)} :
         LET selected == Selected(res.by)
         IN  /\ s_tier' = s_tier + 1
             /\ s_by' = res.by
             /\ IF res.err
                THEN /\ s_pc' = "error"
                     /\ UNCHANGED <<s_plan, s_how, s_sizes, s_seen, s_trail>>
                ELSE /\ s_sizes' = Append(s_sizes, Sizes(res.by))
                     /\ s_seen' = FirstSeen(s_seen, resp, s_minC)
                     /\ s_trail' = res.trail
                     /\ IF Len(selected) >= ChannelsWanted
                        THEN /\ s_plan' = Take(selected, ChannelsWanted)
                             /\ s_how' = "escalation"
                             /\ s_pc' = "picked"
                        ELSE IF s_tier + 1 = NumVariants
                        THEN /\ s_plan' = Fallback(res.by)
                             /\ s_how' = "fallback"
                             /\ s_pc' = "picked"
                        ELSE /\ UNCHANGED <<s_plan, s_how>>
                             /\ s_pc' = "escalate"
    /\ UNCHANGED <<s_N, s_M, s_minC, s_stats>>
    /\ UNCHANGED <<colVars, topVars>>

\* main 199-208: exit 2 on an empty selection, else limit the selection to
\* args.channels entries of args.videos_per_channel videos.
SelMain ==
    /\ s_pc = "picked"
    /\ IF Len(s_plan) = 0
       THEN s_pc' = "exit2" /\ UNCHANGED <<s_plan, s_N, s_M>>
       ELSE \E n \in ChannelArgs, m \in VideoArgs :
              /\ s_N' = n
              /\ s_M' = m
              /\ s_plan' = LimitPlan(s_plan, n, m)
              /\ s_pc' = "plan"
    /\ UNCHANGED <<s_minC, s_stats, s_by, s_tier, s_how, s_sizes, s_seen, s_trail>>
    /\ UNCHANGED <<colVars, topVars>>

\* The selector when another component is the one under study.
SelIdle ==
    /\ s_pc = "idle"
    /\ s_N = 0
    /\ s_M = 0
    /\ s_minC = 0
    /\ s_stats = <<>>
    /\ s_by = EmptyBy
    /\ s_tier = 0
    /\ s_plan = <<>>
    /\ s_how = "none"
    /\ s_sizes = <<>>
    /\ s_seen = <<>>
    /\ s_trail = <<>>

(***************************************************************************)
(*                     CORPUS MERGER (yt_topup.py)                         *)
(***************************************************************************)

\* Numbers written into yt_topup.py.
MinComments == 25       \* MIN_COMMENTS
TargetPerVideo == 120   \* TARGET_PER_VIDEO
CoverageGoal == 5       \* need = max(0, 5 - have)

\* Bounds: the names of TARGET_CHANNEL_NAMES handled, and the successive runs.
NumNames == 2
MaxRuns == 2

(***************************************************************************)
(* The source a top-up run talks to; it is the same for every run of a     *)
(* behaviour.  Channel ids are strings; "None" is Python's None, "absent"  *)
(* a key a row does not have (r.get gives None), "NaN" the float nan that  *)
(* pandas gives for an empty cell.                                         *)
(***************************************************************************)
TopChannels == {"chA", "chB"}
TopNames == 1..NumNames

\* The j-th video of every channel has this commentCount.
TopCountPattern == <<40, 30, 25, 10, 50, 30, 26, 27>>
TopCount(v) == TopCountPattern[v[2]]
CatalogueLen(ch) == IF ch = "chA" THEN Len(TopCountPattern) ELSE 3
TopCatalogue(ch) == [j \in 1..CatalogueLen(ch) |-> <<ch, j>>]

\* search_channel_videos answers with distinct videos of the channel asked
\* for: a prefix of the channel's catalogue.
SearchAnswers(ch) == {SubSeq(TopCatalogue(ch), 1, n) : n \in 0..CatalogueLen(ch)}

\* The comment pages of a video: a viewer's thread answered by the
\* uploader; one plain thread; nothing retrievable at all; two pages.
TopPages(v) ==
    CASE v[2] = 1 ->
           << << [id |-> TopId(1, 1), author |-> "viewer",
                  replies |-> << [id |-> ReplyId(1, 1, 1), author |-> v[1]] >>] >> >>
      [] v[2] = 2 -> << << MkThread(1, 1, 0, "viewer") >> >>
      [] v[2] = 3 -> << <<>> >>
      [] OTHER -> << << MkThread(1, 1, 0, "viewer") >>, << MkThread(2, 1, 1, "viewer2") >> >>

\* The whole loop of fetch_comments (topup 54-99), the copy of
\* fetch_comments_for_video: ColFetchPage repeated until it is done.
RECURSIVE FetchLoop(_, _, _, _, _, _)
FetchLoop(src, vid, target, rows, fetched, next) ==
    LET p == RequestedPage(next)
        res == ProcessItems(src[p], vid, rows, fetched, target, <<>>)
        tok == NextPageToken(src, p)
    IN  IF res.fetched >= target \/ tok = NoneId THEN res.rows
        ELSE FetchLoop(src, vid, target, res.rows, res.fetched, tok)

fetch_comments(vid) == FetchLoop(TopPages(vid), vid, TargetPerVideo, <<>>, 0, NoneId)

\* A collector row with the merger's extra column.
WithUploader(r, u) ==
    [video_id |-> r.video_id, comment_id |-> r.comment_id,
     reply_parent_id |-> r.reply_parent_id, is_reply |-> r.is_reply,
     channel_id |-> r.channel_id, video_uploader_channel_id |-> u]

MapRows(rows, u) == [k \in 1..Len(rows) |-> WithUploader(rows[k], u)]

RECURSIVE ConcatAll(_)
ConcatAll(ss) == IF ss = <<>> THEN <<>> ELSE Head(ss) \o ConcatAll(Tail(ss))

\* The corpus youtube_scraper.py writes for a selection `vids` (scraper
\* 211-230): the collector's rows, no uploader columns.
BaseVideoSeqs ==
    {<<>>, << <<"chA", 1>> >>, << <<"chA", 2>> >>, << <<"chB", 1>> >>,
     << <<"chA", 1>>, <<"chA", 2>> >>, << <<"chA", 1>>, <<"chB", 1>> >>,
     << <<"chA", 2>>, <<"chB", 1>> >>, << <<"chA", 1>>, <<"chA", 2>>, <<"chB", 1>> >>}
BaseFile(vids) ==
    [exists |-> TRUE, extras |-> FALSE,
     rows |-> ConcatAll([k \in 1..Len(vids) |-> MapRows(fetch_comments(vids[k]), "absent")])]
NoFile == [exists |-> FALSE, extras |-> FALSE, rows |-> <<>>]
InitialFiles == {NoFile} \cup {BaseFile(vids) : vids \in BaseVideoSeqs}

(***************************************************************************)
(* pd.read_excel(...).to_dict('records') (topup 114-116) of what           *)
(* DataFrame(all_rows, columns=...).to_excel wrote (topup 152-156): a cell *)
(* written from None or from a missing key is empty and is read back as    *)
(* nan; a sheet written by youtube_scraper.py has no uploader columns, so  *)
(* its records have no such key.                                           *)
(***************************************************************************)
Blank(x) == x \in {"None", "absent", "NaN"}
LoadRow(r, extras) ==
    [r EXCEPT !.channel_id = IF Blank(@) THEN "NaN" ELSE @,
              !.video_uploader_channel_id =
                  IF ~extras THEN "absent" ELSE IF Blank(@) THEN "NaN" ELSE @]
LoadFile(file) ==
    IF file.exists THEN [k \in 1..Len(file.rows) |-> LoadRow(file.rows[k], file.extras)]
    ELSE <<>>

\* Python truth of a cell value: None is false, a string id and nan are true.
Truthy(x) == x \notin {"None", "absent"}

\* Line 122: r.get('video_uploader_channel_id') or r.get('channel_id').
OwnerKey(r) ==
    IF Truthy(r.video_uploader_channel_id) THEN r.video_uploader_channel_id
    ELSE r.channel_id

RowSet(rows) == {rows[k] : k \in 1..Len(rows)}
VidsOf(rows) == {r.video_id : r \in RowSet(rows)}

\* Lines 120-125: per_ch, over every key a row can carry.
TopKeys == TopChannels \cup {"viewer", "viewer2", "NaN"}
PerChOf(rows) ==
    [k \in TopKeys |-> {r.video_id : r \in {x \in RowSet(rows) : OwnerKey(x) = k}}]

\* Line 132.
NeedOneLess(have) == IF CoverageGoal - 1 - have > 0 THEN CoverageGoal - 1 - have ELSE 0
Need(have) == IF CoverageGoal - have > 0 THEN CoverageGoal - have ELSE 0

\* Line 137: the candidate filter.
IsCandidateUnfiltered(v, existing_vids) == TopCount(v) >= MinComments
IsCandidate(v, existing_vids) == TopCount(v) >= MinComments /\ v \notin existing_vids

\* Line 138.
SortByTopCount(lst) ==
    Vals(SortDescPairs([i \in 1..Len(lst) |-> [key |-> TopCount(lst[i]), val |-> lst[i]]]))

\* Lines 140-149 for the videos of `pick`, in order.
RECURSIVE CollectPicks(_, _, _)
CollectPicks(st, pick, ch_id) ==
    IF pick = <<>> THEN st
    ELSE LET vid == Head(pick)
             rows == MapRows(fetch_comments(vid), ChannelOf(vid))
         IN  CollectPicks(
               [added |-> st.added \o rows,
                existing_vids |-> st.existing_vids \cup {vid},
                per_ch |-> [st.per_ch EXCEPT ![ch_id] = @ \cup {vid}],
                passes |-> Append(st.passes,
                            [vid |-> vid, ch |-> ch_id, nrows |-> Len(rows),
                             covered |-> st.existing_vids])],
               Tail(pick), ch_id)

TopInit ==
    /\ t_pc = "start"
    /\ t_run = 0
    /\ t_file \in InitialFiles
    /\ t_resolve \in [TopNames -> TopChannels \cup {"None"}]
    /\ t_search \in {f \in [TopChannels -> UNION {SearchAnswers(c) : c \in TopChannels}] :
                       \A c \in TopChannels : f[c] \in SearchAnswers(c)}
    /\ t_existing = <<>>
    /\ t_existing_vids = {}
    /\ t_per_ch = [k \in TopKeys |-> {}]
    /\ t_added = <<>>
    /\ t_i = 1
    /\ t_iters = <<>>
    /\ t_passes = <<>>

\* Lines 112-127: a run starts, on the file as the previous run (or the base
\* collector, or nobody) left it.
TopLoad ==
    /\ t_pc = "start" \/ (t_pc = "written" /\ t_run < MaxRuns)
    /\ t_run' = t_run + 1
    /\ t_existing' = LoadFile(t_file)
    /\ t_existing_vids' = VidsOf(LoadFile(t_file))
    /\ t_per_ch' = PerChOf(LoadFile(t_file))
    /\ t_added' = <<>>
    /\ t_i' = 1
    /\ t_iters' = <<>>
    /\ t_passes' = <<>>
    /\ t_pc' = "names"
    /\ UNCHANGED <<t_file, t_resolve, t_search>>
    /\ UNCHANGED <<colVars, selVars>>

\* Lines 128-149: one pass of `for name in TARGET_CHANNEL_NAMES`.
TopChannel ==
    /\ t_pc = "names"
    /\ t_i <= NumNames
    /\ LET ch_id == t_resolve[t_i]
           have == IF ch_id = "None" THEN 0 ELSE Cardinality(t_per_ch[ch_id])
           need == Need(have)
           vids == IF ch_id = "None" THEN <<>> ELSE t_search[ch_id]
           cand == SortByTopCount(SelectSeq(vids, LAMBDA v : IsCandidate(v, t_existing_vids)))
           pick == Take(cand, need)
           st == CollectPicks([added |-> t_added, existing_vids |-> t_existing_vids,
                               per_ch |-> t_per_ch, passes |-> t_passes], pick, ch_id)
       IN  IF ch_id = "None" \/ need = 0
           THEN /\ t_iters' = Append(t_iters,
                       [name |-> t_i, ch |-> ch_id, have |-> have, picked |-> 0,
                        before |-> Len(t_passes)])
                /\ UNCHANGED <<t_added, t_existing_vids, t_per_ch, t_passes>>
           ELSE /\ t_added' = st.added
                /\ t_existing_vids' = st.existing_vids
                /\ t_per_ch' = st.per_ch
                /\ t_passes' = st.passes
                /\ t_iters' = Append(t_iters,
                       [name |-> t_i, ch |-> ch_id, have |-> have, picked |-> Len(pick),
                        before |-> Len(t_passes)])
    /\ t_i' = t_i + 1
    /\ t_pc' = IF t_i = NumNames THEN "write" ELSE "names"
    /\ UNCHANGED <<t_run, t_file, t_resolve, t_search, t_existing>>
    /\ UNCHANGED <<colVars, selVars>>

\* Lines 151-157: existing + added replaces the file, with the uploader columns.
TopWrite ==
    /\ t_pc = "write"
    /\ t_file' = [exists |-> TRUE, extras |-> TRUE, rows |-> t_existing \o t_added]
    /\ t_pc' = "written"
    /\ UNCHANGED <<t_run, t_resolve, t_search, t_existing, t_existing_vids,
                   t_per_ch, t_added, t_i, t_iters, t_passes>>
    /\ UNCHANGED <<colVars, selVars>>

\* The merger when another component is the one under study.
TopIdle ==
    /\ t_pc = "idle"
    /\ t_run = 0
    /\ t_file = NoFile
    /\ t_resolve = [n \in TopNames |-> "None"]
    /\ t_search = [c \in TopChannels |-> <<>>]
    /\ t_existing = <<>>
    /\ t_existing_vids = {}
    /\ t_per_ch = [k \in TopKeys |-> {}]
    /\ t_added = <<>>
    /\ t_i = 1
    /\ t_iters = <<>>
    /\ t_passes = <<>>

(***************************************************************************)
(*                           SPECIFICATIONS                                *)
(***************************************************************************)
vars == <<colVars, selVars, topVars>>

\* One run of the Channel Selector, up to the plan main hands to collection.
Init == SelInit /\ ColIdle /\ TopIdle
Next == SelPrimary \/ SelEscalate \/ SelMain
Spec == Init /\ [][Next]_vars

\* One call of the Comment Collector.
InitCol == ColInit /\ SelIdle /\ TopIdle
ColNext == ColFetchPage
SpecCol == InitCol /\ [][ColNext]_vars

\* Successive top-up runs on one file, against one unchanging source.
InitTop == TopInit /\ SelIdle /\ ColIdle
TopNext == TopLoad \/ TopChannel \/ TopWrite
SpecTop == InitTop /\ [][TopNext]_vars

(***************************************************************************)
(* Selector claims (checked under Spec).                                   *)
(***************************************************************************)

\* Whether, after the t-th tier run (1 = the primary one), at least n
\* channels held at least m qualifying videos, and the first n of them.
ChannelsWithM(t, m) ==
    LET full == SelectSeq(s_sizes[t], LAMBDA e : e.n >= m)
    IN  [i \in 1..Len(full) |-> full[i].ch]
MetAt(t, n, m) == Len(ChannelsWithM(t, m)) >= n

\* C1: once, after the primary tier or an escalation tier, at least N
\* channels have M qualifying videos, no further tier is run, and the plan
\* handed to collection is the first N such channels in discovery order with
\* exactly M videos each.
C1_ExactShapeOnceMet ==
    s_pc = "plan" =>
        \A t \in 1..Len(s_sizes) :
            (MetAt(t, s_N, s_M) /\ \A u \in 1..(t - 1) : ~MetAt(u, s_N, s_M)) =>
                /\ Len(s_sizes) = t
                /\ Len(s_plan) = s_N
                /\ \A i \in 1..Len(s_plan) : Len(s_plan[i].vids) = s_M
                /\ [i \in 1..Len(s_plan) |-> s_plan[i].ch] = Take(ChannelsWithM(t, s_M), s_N)

\* The same statement for the one pair of arguments the selector is written
\* for, --channels 5 --videos-per-channel 5.
SelectorFiveByFive ==
    (s_N = ChannelsWanted /\ s_M = FullBucket) => C1_ExactShapeOnceMet

\* C2: every video of the selection (as returned by any of the three
\* returns, and as cut by main), and every video held in a bucket, has a
\* probed commentCount of at least min_comments.
C2_PlanMeetsThreshold ==
    /\ \A i \in 1..Len(s_plan) : \A v \in SeqToSet(s_plan[i].vids) :
          CountOf(v) >= s_minC
    /\ s_pc # "error" =>
          \A c \in SelChannels : \A v \in SeqToSet(s_by.vids[c]) : CountOf(v) >= s_minC

\* A plan returned by an escalation tier, from a pool in which the primary
\* probe also reported a video below the threshold.
C2_Witness ==
    /\ s_pc = "plan"
    /\ s_how = "escalation"
    /\ Len(s_plan) > 0
    /\ \E v \in SeqToSet(s_stats) : CountOf(v) < s_minC

\* C3: the selector never ends in an error: every run of it ends with a
\* returned selection.
C3_SelectorNeverRaises == s_pc # "error"

\* The lists a state holds: every bucket of by_channel, every list the last
\* tier run assigned, and every list of the selection.
HeldBuckets ==
    {s_by.vids[c] : c \in SelChannels}
        \cup {s_trail[k].vids : k \in 1..Len(s_trail)}
        \cup {s_plan[i].vids : i \in 1..Len(s_plan)}

SeenAt(v) == CHOOSE i \in 1..Len(s_seen) : s_seen[i] = v

BucketDistinct(b) == \A i, j \in 1..Len(b) : i < j => b[i] # b[j]
BucketNonIncreasing(b) ==
    \A i \in 1..(Len(b) - 1) : CountOf(b[i]) >= CountOf(b[i + 1])
BucketTiesFirstSeen(b) ==
    \A i, j \in 1..Len(b) :
        (i < j /\ CountOf(b[i]) = CountOf(b[j])) =>
            /\ b[i] \in SeqToSet(s_seen) /\ b[j] \in SeqToSet(s_seen)
            /\ SeenAt(b[i]) < SeenAt(b[j])
BucketOrdered(b) == BucketDistinct(b) /\ BucketNonIncreasing(b) /\ BucketTiesFirstSeen(b)

\* C11: after the primary tier, after every insertion of an escalation tier
\* and in the returned plan, every bucket holds distinct videos in
\* non-increasing order of commentCount, ties in first-seen order, and no
\* bucket is longer than the per-channel target M (--videos-per-channel).
C11_BucketsOrderedWithinM ==
    s_pc # "error" =>
        \A b \in HeldBuckets :
            /\ BucketOrdered(b)
            /\ s_pc = "plan" => Len(b) <= s_M

\* The same statement with the selector's own cap of 5 in the place of M.
BucketsOrderedWithinCap ==
    s_pc # "error" =>
        \A b \in HeldBuckets : BucketOrdered(b) /\ Len(b) <= BucketCap

\* One escalation tier leaves every channel of the bucket map in it, makes
\* no bucket shorter, and keeps a bucket that held at least m videos, for
\* every per-channel target m tried, at that size; when the tier runs to its
\* end, a bucket that held exactly 5 videos still holds exactly 5.
TierMonotone ==
    /\ SeqToSet(s_by.order) \subseteq SeqToSet(s_by'.order)
    /\ SubSeq(s_by'.order, 1, Len(s_by.order)) = s_by.order
    /\ \A c \in SelChannels :
          /\ Len(s_by'.vids[c]) >= Len(s_by.vids[c])
          /\ \A m \in VideoArgs : Len(s_by.vids[c]) >= m => Len(s_by'.vids[c]) >= m
          /\ (s_pc' # "error" /\ Len(s_by.vids[c]) = FullBucket) =>
                 Len(s_by'.vids[c]) = FullBucket

\* C12: escalation is monotone (no channel of the bucket map is lost by a
\* tier, no bucket shrinks, a full bucket stays full), and the plan main
\* hands to collection never has more than N entries.
C12_EscalationMonotone ==
    [][/\ s_pc = "escalate" => TierMonotone
       /\ s_pc' = "plan" => Len(s_plan') <= s_N']_vars

\* A plan cut to N channels out of a larger bucket map, whose last tier
\* added a channel and lengthened a bucket while another bucket was full.
C12_Witness ==
    /\ s_pc = "plan"
    /\ Len(s_plan) = s_N
    /\ Len(s_by.order) > s_N
    /\ Len(s_sizes) >= 2
    /\ LET a == s_sizes[Len(s_sizes) - 1]
           b == s_sizes[Len(s_sizes)]
       IN  /\ Len(b) > Len(a)
           /\ \E i \in 1..Len(a) : b[i].n > a[i].n
           /\ \E i \in 1..Len(a) : a[i].n = FullBucket

(***************************************************************************)
(* Merger claims (checked under SpecTop).                                  *)
(***************************************************************************)
Max(a, b) == IF a >= b THEN a ELSE b

\* For the entry e of t_iters: the videos the loaded corpus records for e's
\* channel, those collected for it earlier in the run, the covered-video
\* set when e's name was taken up, and the eligible candidates then.
LoadedFor(ch) == {r.video_id : r \in {x \in RowSet(t_existing) : OwnerKey(x) = ch}}
PassesBefore(e) == {t_passes[k] : k \in 1..e.before}
EarlierFor(e) == {q.vid : q \in {x \in PassesBefore(e) : x.ch = e.ch}}
CoveredBefore(e) == VidsOf(t_existing) \cup {q.vid : q \in PassesBefore(e)}
EligibleFor(e) ==
    {v \in SeqToSet(t_search[e.ch]) : TopCount(v) >= 25 /\ v \notin CoveredBefore(e)}
ShortfallLoaded(e) == Max(0, 5 - Cardinality(LoadedFor(e.ch)))
ShortfallRunning(e) == Max(0, 5 - Cardinality(LoadedFor(e.ch) \cup EarlierFor(e)))
Resolved == {t_iters[k] : k \in {i \in 1..Len(t_iters) : t_iters[i].ch # "None"}}
WrittenFor(ch) == {r.video_id : r \in {x \in RowSet(t_file.rows) : OwnerKey(x) = ch}}
AllYieldRows(ch) == \A k \in 1..Len(t_passes) : t_passes[k].ch = ch => t_passes[k].nrows > 0

C7_SecondRunAppendsNothing ==
    (t_run >= 2 /\ t_pc = "written") =>
        /\ t_added = <<>>
        /\ VidsOf(t_file.rows) = VidsOf(t_existing)

\* The owning channel of a row as C8 defines it: the uploader channel id if
\* the row records one, otherwise the row's channel_id.
OwningChannel(r) ==
    IF Blank(r.video_uploader_channel_id) THEN r.channel_id
    ELSE r.video_uploader_channel_id

\* C8: in the corpus a run writes, no video id has two owning channels.
C8_OneOwnerPerVideo ==
    t_pc = "written" =>
        \A r1, r2 \in RowSet(t_file.rows) :
            r1.video_id = r2.video_id => OwningChannel(r1) = OwningChannel(r2)

(***************************************************************************)
(* Collector claims (checked under SpecCol).                               *)
(***************************************************************************)

\* C4: when the collector has returned, it holds at least `target` rows if
\* the source holds at least `target` items over all its pages, and exactly
\* the source's item count (every page requested, the loop ended by the
\* absent cursor) if the source holds fewer.
C4_CollectorYield ==
    c_pc = "done" =>
        IF SourceTotal(c_pages) >= c_target
        THEN Len(c_rows) >= c_target
        ELSE /\ Len(c_rows) = SourceTotal(c_pages)
             /\ Len(c_log) = Len(c_pages)
             /\ c_next = NoneId
             /\ c_fetched < c_target

\* The T=150 / 140-item scenario in small: several pages, fewer items than
\* the target, all of them returned.
C4_Witness ==
    /\ c_pc = "done"
    /\ Len(c_pages) >= 2
    /\ SourceTotal(c_pages) >= 3
    /\ SourceTotal(c_pages) < c_target
    /\ Len(c_rows) = SourceTotal(c_pages)

\* The source's comment ids in flattened order: each thread's top-level id,
\* then its reply ids as returned.
RECURSIVE FlatIdsOfPage(_)
FlatIdsOfPage(page) ==
    IF page = <<>> THEN <<>>
    ELSE <<Head(page).id>>
         \o [k \in 1..Len(Head(page).replies) |-> Head(page).replies[k].id]
         \o FlatIdsOfPage(Tail(page))

RECURSIVE FlatIds(_)
FlatIds(src) ==
    IF src = <<>> THEN <<>> ELSE FlatIdsOfPage(Head(src)) \o FlatIds(Tail(src))

\* The source's threads, and the thread a reply id belongs to.
SourceThreads(src) ==
    UNION {{src[p][i] : i \in 1..Len(src[p])} : p \in 1..Len(src)}
ThreadOfReply(src, rid) ==
    CHOOSE t \in SourceThreads(src) : \E k \in 1..Len(t.replies) : t.replies[k].id = rid

C10_RequestsOnlyWhileBelowTarget ==
    /\ \A k \in 1..Len(c_log) :
          /\ c_log[k].fetched < c_target
          /\ k > 1 => c_log[k].cursor # NoneId
          /\ \A j \in 1..Len(c_log[k].seen) : c_log[k].seen[j] < c_target
    /\ Len(c_log) <= Len(c_pages)
    /\ c_pc = "done" \/ ENABLED ColNext

\* The same statement for targets of at least 1: what is left of C10 once the
\* unconditional first request is set aside.
CollectorRequestsPositiveTarget ==
    c_target >= 1 => C10_RequestsOnlyWhileBelowTarget
====
